---- MODULE Spec2Model ----
(***************************************************************************)
(* Xenon core (src/xenon/core.py): analyze, build_blocks_to_ignore, av,    *)
(* check and find_infractions as a state machine.                          *)
(*                                                                         *)
(* Strings that the code splits, strips or compares character by           *)
(* character (the ignore spec, module names, block names) are sequences of *)
(* one-character strings.  Optional arguments are None == <<>> or          *)
(* Some(x) == <<x>>.  Numeric scores and averages are exact rationals      *)
(* <<numerator, denominator>> in lowest terms.                             *)
(*                                                                         *)
(* The locals of find_infractions and the events sent to the logger are     *)
(* kept once per variant of the arguments (the arguments as given, and the *)
(* same arguments with the ignore spec or one ceiling unset): all variants *)
(* run the same code on the same results, in lockstep, so that two runs    *)
(* can be compared in one state.                                           *)
(***************************************************************************)
EXTENDS Integers, Sequences, FiniteSets, TLC

VARIABLES entry, pc, exc, args, results, harvested, built, frames, i, j, k, returned

vars == <<entry, pc, exc, args, results, harvested, built, frames, i, j, k, returned>>

(* ------------------------------ bounds --------------------------------- *)

\* Blocks in a whole result set.
MaxTotalBlocks == 2

\* Characters of an ignore spec handed straight to build_blocks_to_ignore.
MaxSpecLen == 5

(* ------------------------------ values --------------------------------- *)

None == <<>>

Some(x) == <<x>>

Range(s) == {s[p] : p \in 1..Len(s)}

\* Characters an ignore spec is made of.
SpecChars == {"m", "f", ":", ",", " "}

Whitespace == {" "}

ModuleNames == {<<"m">>, <<"n">>}

BlockNames == {<<"f">>, <<"g">>}

\* Scores of rank A and rank F; their averages fall in ranks between.
Scores == {3, 45}

Linenos == {1}

ErrorStrings == {"", "SyntaxError"}

\* Rank ceilings as the command line gives them, in either case.
AbsoluteCeilings == {None, Some("A"), Some("d")}

ModulesCeilings == {None, Some("A")}

AverageCeilings == {None, Some("a")}

NumCeilings == {None, Some(3)}

S(str) == Some(str)

\* ignore specs given to analyze: well formed with whitespace (the run with
\* the spec absent is the variant "no_ignore" below), and malformed: two
\* colons, an empty entry after a trailing comma.
IgnoreSamples ==
    { S(<<" ", "m", ":", " ", "f">>),
      S(<<"m", ":", "f", ":", "g">>),
      S(<<"m", ":", "f", ",">>) }

\* Longer specs handed straight to build_blocks_to_ignore: two entries for
\* one module and one for another, with whitespace; a malformed entry in the
\* middle.
LongSamples ==
    { <<" ", "m", " ", ":", "f", ",", "m", ":", " ", "g", " ", ",", "n", ":", "g">>,
      <<"m", ":", "g", ",", "m", ":", "f", ",", "m", ":", "g">>,
      <<"m", ":", "f", ",", "n", ",", "m", ":", "g">> }

(* --------------------- the analyzer's output --------------------------- *)

Blocks == [name : BlockNames, lineno : Linenos, complexity : Scores]

BlockLists == UNION {[1..n -> Blocks] : n \in 0..MaxTotalBlocks}

\* A module's result: a list of blocks, or the dict {'error': <string>}.
ListResult(bs) == [kind |-> "list", error |-> "", items |-> bs]

DictResult(e) == [kind |-> "dict", error |-> e, items |-> <<>>]

ModuleResults == {ListResult(bs) : bs \in BlockLists} \cup {DictResult(e) : e \in ErrorStrings}

ResultEntries == [module : ModuleNames, blocks : ModuleResults]

CountBlocks(rs) ==
    LET F[n \in 0..Len(rs)] == IF n = 0 THEN 0 ELSE F[n - 1] + Len(rs[n].blocks.items)
    IN  F[Len(rs)]

\* A dict keyed by module: each module once, in the analyzer's order.
ResultSets ==
    { rs \in UNION {[1..n -> ResultEntries] : n \in 0..Cardinality(ModuleNames)} :
        /\ \A p, q \in 1..Len(rs) : p # q => rs[p].module # rs[q].module
        /\ CountBlocks(rs) <= MaxTotalBlocks }

(* --------------------- str.split, str.strip, dict ---------------------- *)

\* s.split(sep) for a one-character sep: every occurrence separates, so
\* leading, trailing and doubled separators give empty parts.
RECURSIVE Split(_, _)
Split(s, sep) ==
    IF \A p \in 1..Len(s) : s[p] # sep
    THEN <<s>>
    ELSE LET c == CHOOSE p \in 1..Len(s) :
                      /\ s[p] = sep
                      /\ \A q \in 1..(p - 1) : s[q] # sep
         IN  <<SubSeq(s, 1, c - 1)>> \o Split(SubSeq(s, c + 1, Len(s)), sep)

\* s.strip(): whitespace removed at both ends.
RECURSIVE Strip(_)
Strip(s) ==
    IF s = <<>> THEN s
    ELSE IF s[1] \in Whitespace THEN Strip(Tail(s))
    ELSE IF s[Len(s)] \in Whitespace THEN Strip(SubSeq(s, 1, Len(s) - 1))
    ELSE s

EmptyDict == [key \in {} |-> <<>>]

\* d.get(key, default)
DictGet(d, key, default) == IF key \in DOMAIN d THEN d[key] ELSE default

\* Mutant: a plain dict assignment, the last entry of a module wins.
DictAppendOverwrite(d, key, x) ==
    [q \in (DOMAIN d) \cup {key} |-> IF q = key THEN <<x>> ELSE d[q]]

\* defaultdict(list): d[key].append(x)
DictAppend(d, key, x) ==
    [q \in (DOMAIN d) \cup {key} |->
        IF q = key THEN Append(DictGet(d, key, <<>>), x) ELSE d[q]]

(* ------------------------ build_blocks_to_ignore ----------------------- *)

\* `not args.ignore_blocks`: None or the empty string.
Falsy(opt) == opt = None \/ opt[1] = <<>>

\* Mutant: an entry that does not split in two is skipped.
RECURSIVE IgnoreLoopSkip(_, _)
IgnoreLoopSkip(entries, d) ==
    IF entries = <<>> THEN [raised |-> FALSE, value |-> d]
    ELSE LET parts == Split(Head(entries), ":")
         IN  IF Len(parts) # 2
             THEN IgnoreLoopSkip(Tail(entries), d)
             ELSE IgnoreLoopSkip(Tail(entries),
                                 DictAppend(d, Strip(parts[1]), Strip(parts[2])))

\* The loop of lines 50-52 over the entries that are left; the unpacking of
\* line 51 raises ValueError unless split(':') gives exactly two parts.
RECURSIVE IgnoreLoop(_, _)
IgnoreLoop(entries, d) ==
    IF entries = <<>> THEN [raised |-> FALSE, value |-> d]
    ELSE LET parts == Split(Head(entries), ":")
         IN  IF Len(parts) # 2
             THEN [raised |-> TRUE, value |-> EmptyDict]
             ELSE IgnoreLoop(Tail(entries),
                             DictAppend(d, Strip(parts[1]), Strip(parts[2])))

BuildBlocksToIgnore(a) ==
    IF Falsy(a.ignore_blocks)
    THEN [raised |-> FALSE, value |-> EmptyDict]
    ELSE IgnoreLoop(Split(a.ignore_blocks[1], ","), EmptyDict)

(* ------------------------------ av, check ------------------------------ *)

RECURSIVE GCD(_, _)
GCD(a, b) == IF b = 0 THEN a ELSE GCD(b, a % b)

\* The rational n/m in lowest terms (m > 0).
Ratio(n, m) == LET g == GCD(n, m) IN IF g = 0 THEN <<0, 1>> ELSE <<n \div g, m \div g>>

Num(n) == <<n, 1>>

\* x > y for rationals.
RatGt(x, y) == x[1] * y[2] > y[1] * x[2]

Av(n, m) == IF m # 0 THEN Ratio(n, m) ELSE Num(0)

\* radon.complexity.cc_rank: A up to 5, B up to 10, C up to 20, D up to 30,
\* E up to 40, F above.
CcRank(cc) ==
    IF ~RatGt(cc, Num(5)) THEN "A"
    ELSE IF ~RatGt(cc, Num(10)) THEN "B"
    ELSE IF ~RatGt(cc, Num(20)) THEN "C"
    ELSE IF ~RatGt(cc, Num(30)) THEN "D"
    ELSE IF ~RatGt(cc, Num(40)) THEN "E"
    ELSE "F"

Ranks == {"A", "B", "C", "D", "E", "F"}

\* str.upper() on a rank letter.
Upper(c) ==
    CASE c = "a" -> "A" [] c = "b" -> "B" [] c = "c" -> "C"
      [] c = "d" -> "D" [] c = "e" -> "E" [] c = "f" -> "F"
      [] OTHER -> c

\* The code point order of the capital letters: Python compares the one-letter
\* strings by it.
Ord(c) ==
    CASE c = "A" -> 65 [] c = "B" -> 66 [] c = "C" -> 67
      [] c = "D" -> 68 [] c = "E" -> 69 [] c = "F" -> 70

\* Mutant: a rank equal to the ceiling counts too.
CheckGe(rank, default) ==
    IF default # None THEN Ord(rank) >= Ord(Upper(default[1])) ELSE FALSE

\* Mutant: an unset ceiling is taken for the lowest one.
CheckNoneAsLowest(rank, default) ==
    Ord(rank) > Ord(IF default # None THEN Upper(default[1]) ELSE "A")

Check(rank, default) ==
    IF default # None THEN Ord(rank) > Ord(Upper(default[1])) ELSE FALSE

(* ------------------- the locals of find_infractions -------------------- *)

\* The arguments as given, and with the ignore spec or one ceiling unset.
Variants == {"given", "no_ignore", "no_absolute", "no_modules", "no_average", "no_averagenum"}

ArgsOf(v) ==
    CASE v = "given"         -> args
      [] v = "no_ignore"     -> [args EXCEPT !.ignore_blocks = None]
      [] v = "no_absolute"   -> [args EXCEPT !.absolute = None]
      [] v = "no_modules"    -> [args EXCEPT !.modules = None]
      [] v = "no_average"    -> [args EXCEPT !.average = None]
      [] v = "no_averagenum" -> [args EXCEPT !.averagenum = None]

FmtWarning == "cannot parse %s: %s"

FmtBlock == "block \"%s:%s %s\" has a rank of %s"

FmtAverageNum == "total average complexity is %s"

FmtAverage == "average complexity is ranked %s"

FmtModule == "module %r has a rank of %s"

\* One call of the logger: the level, the template and its arguments (the
\* arguments a template does not take stay empty).
Event(level, fmt, module, lineno, name, error, rank, value) ==
    [level |-> level, fmt |-> fmt, module |-> module, lineno |-> lineno,
     name |-> name, error |-> error, rank |-> rank, value |-> value]

\* logger.warning / logger.error
Log(f, e) == [f EXCEPT !.events = Append(@, e)]

\* Lines 75-79.
InitFrame(blocks_to_ignore) ==
    [blocks_to_ignore |-> blocks_to_ignore,
     infractions      |-> 0,
     module_averages  |-> <<>>,
     total_cc         |-> 0,
     total_blocks     |-> 0,
     module_cc        |-> 0,
     av_cc            |-> Num(0),
     ar               |-> "",
     events           |-> <<>>]

\* Line 82: isinstance(blocks, dict) and blocks.get('error')
IsParseError(blocks) == blocks.kind = "dict" /\ blocks.error # ""

\* What `for block in blocks` iterates: the items of a list, the keys of a dict.
Iterated(blocks) == IF blocks.kind = "dict" THEN <<"error">> ELSE blocks.items

\* Lines 81-84: the module could not be parsed.
WarnBody(f, module, blocks) ==
    Log([f EXCEPT !.module_cc = 0],
        Event("warning", FmtWarning, module, 0, <<>>, blocks.error, "", Num(0)))

\* Mutant: an ignored block is skipped before its score is added.
BlockBodySkipIgnored(f, a, module, block) ==
    LET r  == CcRank(Num(block.complexity))
        f1 == [f EXCEPT !.module_cc = @ + block.complexity]
    IN  IF block.name \in Range(DictGet(f.blocks_to_ignore, module, <<>>))
        THEN f
        ELSE IF Check(r, a.absolute)
             THEN [Log(f1, Event("error", FmtBlock, module, block.lineno, block.name, "", r, Num(0)))
                      EXCEPT !.infractions = @ + 1]
             ELSE f1

\* Lines 86-91: one block of a module.
BlockBody(f, a, module, block) ==
    LET r  == CcRank(Num(block.complexity))
        f1 == [f EXCEPT !.module_cc = @ + block.complexity]
    IN  IF /\ Check(r, a.absolute)
           /\ block.name \notin Range(DictGet(f.blocks_to_ignore, module, <<>>))
        THEN [Log(f1, Event("error", FmtBlock, module, block.lineno, block.name, "", r, Num(0)))
                 EXCEPT !.infractions = @ + 1]
        ELSE f1

\* Mutant: the module's average is taken over the running totals.
ModuleEndRunningTotal(f, module, nblocks) ==
    [f EXCEPT !.module_averages =
                  Append(@, <<module, Av(f.total_cc + f.module_cc, f.total_blocks + nblocks)>>),
              !.total_cc        = @ + f.module_cc,
              !.total_blocks    = @ + nblocks]

\* Lines 92-94: the module's average and the totals.
ModuleEnd(f, module, nblocks) ==
    [f EXCEPT !.module_averages = Append(@, <<module, Av(f.module_cc, nblocks)>>),
              !.total_cc        = @ + f.module_cc,
              !.total_blocks    = @ + nblocks]

\* Lines 96-97.
AverageBody(f) ==
    LET av_cc == Av(f.total_cc, f.total_blocks)
    IN  [f EXCEPT !.av_cc = av_cc, !.ar = CcRank(av_cc)]

\* Lines 99-101.
AverageNumCheck(f, a) ==
    IF a.averagenum # None /\ RatGt(f.av_cc, Num(a.averagenum[1]))
    THEN [Log(f, Event("error", FmtAverageNum, <<>>, 0, <<>>, "", "", f.av_cc))
             EXCEPT !.infractions = @ + 1]
    ELSE f

\* Lines 103-105.
AverageCheck(f, a) ==
    IF Check(f.ar, a.average)
    THEN [Log(f, Event("error", FmtAverage, <<>>, 0, <<>>, "", f.ar, Num(0)))
             EXCEPT !.infractions = @ + 1]
    ELSE f

\* Lines 107-110: one entry of module_averages.
ModuleCheck(f, a, pair) ==
    LET mar == CcRank(pair[2])
    IN  IF Check(mar, a.modules)
        THEN [Log(f, Event("error", FmtModule, pair[1], 0, <<>>, "", mar, Num(0)))
                 EXCEPT !.infractions = @ + 1]
        ELSE f

(* ------------------------------- state --------------------------------- *)

ArgSets ==
    [ignore_blocks : IgnoreSamples, absolute : AbsoluteCeilings, modules : ModulesCeilings,
     average : AverageCeilings, averagenum : NumCeilings]

\* Every string of at most MaxSpecLen characters.
SpecStrings == UNION {[1..n -> SpecChars] : n \in 0..MaxSpecLen}

NoBuilt == [raised |-> FALSE, value |-> EmptyDict]

\* A call of analyze(args, logger).
InitAnalyze ==
    /\ entry = "analyze"
    /\ pc = "analyze"
    /\ args \in ArgSets

\* A call of build_blocks_to_ignore(args) on its own.
InitBuild ==
    /\ entry = "build_blocks_to_ignore"
    /\ pc = "build_blocks_to_ignore"
    /\ args \in [ignore_blocks : {None} \cup {Some(str) : str \in SpecStrings \cup LongSamples},
                 absolute : {None}, modules : {None}, average : {None},
                 averagenum : {None}]

Init ==
    /\ InitAnalyze \/ InitBuild
    /\ exc = "none"
    /\ results = <<>>
    /\ harvested = 0
    /\ built = NoBuilt
    /\ frames = [v \in Variants |-> InitFrame(EmptyDict)]
    /\ i = 0
    /\ j = 0
    /\ k = 0
    /\ returned = None

(* ------------------------------ actions -------------------------------- *)

\* Lines 39-54, called directly.
BuildOnly ==
    /\ pc = "build_blocks_to_ignore"
    /\ built' = BuildBlocksToIgnore(args)
    /\ pc' = IF built'.raised THEN "raised" ELSE "built"
    /\ exc' = IF built'.raised THEN "ValueError" ELSE exc
    /\ UNCHANGED <<entry, args, results, harvested, frames, i, j, k, returned>>

\* Mutant: the files are analysed twice, on construction and in _to_dicts.
HarvestTwice ==
    /\ pc = "analyze"
    /\ \E rs \in ResultSets : results' = rs
    /\ harvested' = harvested + 2
    /\ pc' = "find_infractions"
    /\ UNCHANGED <<entry, exc, args, built, frames, i, j, k, returned>>

\* Lines 25-35: the harvester is built and run once; it returns a result set.
Harvest ==
    /\ pc = "analyze"
    /\ \E rs \in ResultSets : results' = rs
    /\ harvested' = harvested + 1
    /\ pc' = "find_infractions"
    /\ UNCHANGED <<entry, exc, args, built, frames, i, j, k, returned>>

\* Lines 75-79: the ignore spec is parsed first; a malformed one raises.
Enter ==
    /\ pc = "find_infractions"
    /\ built' = BuildBlocksToIgnore(args)
    /\ IF built'.raised
       THEN /\ pc' = "raised"
            /\ exc' = "ValueError"
            /\ UNCHANGED <<frames, i>>
       ELSE /\ pc' = "module_loop"
            /\ frames' = [v \in Variants |-> InitFrame(BuildBlocksToIgnore(ArgsOf(v)).value)]
            /\ i' = 1
            /\ UNCHANGED exc
    /\ UNCHANGED <<entry, args, results, harvested, j, k, returned>>

\* Lines 80-84: a module that could not be parsed is logged and skipped.
ModuleWarn ==
    /\ pc = "module_loop"
    /\ i <= Len(results)
    /\ IsParseError(results[i].blocks)
    /\ frames' = [v \in Variants |-> WarnBody(frames[v], results[i].module, results[i].blocks)]
    /\ i' = i + 1
    /\ UNCHANGED <<entry, pc, exc, args, results, harvested, built, j, k, returned>>

\* Lines 80-82, 85: any other module's blocks are iterated.
ModuleEnter ==
    /\ pc = "module_loop"
    /\ i <= Len(results)
    /\ ~IsParseError(results[i].blocks)
    /\ frames' = [v \in Variants |-> [frames[v] EXCEPT !.module_cc = 0]]
    /\ j' = 1
    /\ pc' = "block_loop"
    /\ UNCHANGED <<entry, exc, args, results, harvested, built, i, k, returned>>

\* Mutant: the blocks of a module are visited last to first.
BlockStepReversed ==
    /\ pc = "block_loop"
    /\ j <= Len(Iterated(results[i].blocks))
    /\ results[i].blocks.kind = "list"
    /\ frames' = [v \in Variants |->
                    BlockBody(frames[v], ArgsOf(v), results[i].module,
                              results[i].blocks.items[Len(results[i].blocks.items) + 1 - j])]
    /\ j' = j + 1
    /\ UNCHANGED <<entry, pc, exc, args, results, harvested, built, i, k, returned>>

\* Lines 85-91: one block of a list.
BlockStep ==
    /\ pc = "block_loop"
    /\ j <= Len(Iterated(results[i].blocks))
    /\ results[i].blocks.kind = "list"
    /\ frames' = [v \in Variants |->
                    BlockBody(frames[v], ArgsOf(v), results[i].module, results[i].blocks.items[j])]
    /\ j' = j + 1
    /\ UNCHANGED <<entry, pc, exc, args, results, harvested, built, i, k, returned>>

\* Lines 85-86: iterating a dict gives its key 'error', and indexing that
\* string with 'complexity' raises TypeError.
BlockTypeError ==
    /\ pc = "block_loop"
    /\ j <= Len(Iterated(results[i].blocks))
    /\ results[i].blocks.kind = "dict"
    /\ pc' = "raised"
    /\ exc' = "TypeError"
    /\ UNCHANGED <<entry, args, results, harvested, built, frames, i, j, k, returned>>

\* Lines 92-94.
ModuleFinish ==
    /\ pc = "block_loop"
    /\ j > Len(Iterated(results[i].blocks))
    /\ frames' = [v \in Variants |->
                    ModuleEnd(frames[v], results[i].module, Len(Iterated(results[i].blocks)))]
    /\ i' = i + 1
    /\ pc' = "module_loop"
    /\ UNCHANGED <<entry, exc, args, results, harvested, built, j, k, returned>>

\* Lines 96-97.
ComputeAverage ==
    /\ pc = "module_loop"
    /\ i > Len(results)
    /\ frames' = [v \in Variants |-> AverageBody(frames[v])]
    /\ pc' = "check_averagenum"
    /\ UNCHANGED <<entry, exc, args, results, harvested, built, i, j, k, returned>>

\* Lines 99-101.
CheckAverageNum ==
    /\ pc = "check_averagenum"
    /\ frames' = [v \in Variants |-> AverageNumCheck(frames[v], ArgsOf(v))]
    /\ pc' = "check_average"
    /\ UNCHANGED <<entry, exc, args, results, harvested, built, i, j, k, returned>>

\* Lines 103-105.
CheckAverage ==
    /\ pc = "check_average"
    /\ frames' = [v \in Variants |-> AverageCheck(frames[v], ArgsOf(v))]
    /\ k' = 1
    /\ pc' = "modules_loop"
    /\ UNCHANGED <<entry, exc, args, results, harvested, built, i, j, returned>>

\* Lines 106-110.
CheckModule ==
    /\ pc = "modules_loop"
    /\ k <= Len(frames["given"].module_averages)
    /\ frames' = [v \in Variants |->
                    ModuleCheck(frames[v], ArgsOf(v), frames[v].module_averages[k])]
    /\ k' = k + 1
    /\ UNCHANGED <<entry, pc, exc, args, results, harvested, built, i, j, returned>>

\* Lines 111 and 36.
Return ==
    /\ pc = "modules_loop"
    /\ k > Len(frames["given"].module_averages)
    /\ returned' = Some(frames["given"].infractions)
    /\ pc' = "done"
    /\ UNCHANGED <<entry, exc, args, results, harvested, built, frames, i, j, k>>

Next ==
    \/ BuildOnly
    \/ Harvest
    \/ Enter
    \/ ModuleWarn
    \/ ModuleEnter
    \/ BlockStep
    \/ BlockTypeError
    \/ ModuleFinish
    \/ ComputeAverage
    \/ CheckAverageNum
    \/ CheckAverage
    \/ CheckModule
    \/ Return

Spec == Init /\ [][Next]_vars

(* ------------------- the ignore spec, read as a whole ------------------ *)

\* The raw ignore spec ("" when absent).
Raw(a) == IF a.ignore_blocks = None THEN <<>> ELSE a.ignore_blocks[1]

\* The places of the commas, and both ends.
Cuts(s) == {0, Len(s) + 1} \cup {p \in 1..Len(s) : s[p] = ","}

\* The comma-separated entries: the spans between neighbouring cuts.
EntrySpans(s) ==
    {sp \in Cuts(s) \X Cuts(s) :
        /\ sp[1] < sp[2]
        /\ \A c \in Cuts(s) : ~(sp[1] < c /\ c < sp[2])}

ColonsIn(s, sp) == {p \in (sp[1] + 1)..(sp[2] - 1) : s[p] = ":"}

\* Some entry is not exactly two colon-delimited parts.
MalformedSpec(s) ==
    /\ s # <<>>
    /\ \E sp \in EntrySpans(s) : Cardinality(ColonsIn(s, sp)) # 1

\* t without its leading and trailing whitespace.
Trimmed(t) ==
    LET ink == {p \in 1..Len(t) : t[p] \notin Whitespace}
    IN  IF ink = {} THEN <<>>
        ELSE SubSeq(t, CHOOSE p \in ink : \A q \in ink : p <= q,
                       CHOOSE p \in ink : \A q \in ink : q <= p)

\* The (module, block name) pairs of a well-formed spec.
IgnorePairs(s) ==
    IF s = <<>> THEN {}
    ELSE { LET c == CHOOSE p \in ColonsIn(s, sp) : TRUE
           IN  <<Trimmed(SubSeq(s, sp[1] + 1, c - 1)), Trimmed(SubSeq(s, c + 1, sp[2] - 1))>>
           : sp \in EntrySpans(s) }

\* build_blocks_to_ignore has been called and has returned or raised.
BuildCalled == pc \notin {"analyze", "find_infractions", "build_blocks_to_ignore"}

(* ------------------------------- claims -------------------------------- *)

\* C10: build_blocks_to_ignore on an empty or absent spec returns an empty
\* map and does not fail; on a well-formed spec it returns a map whose keys
\* are exactly the trimmed module sides of the entries, and a block name is
\* in a module's list exactly when some entry has that trimmed module and
\* that trimmed block name (so entries of one module accumulate, and order
\* and repetition do not matter to membership).
C10_IgnoreMap ==
    BuildCalled =>
        LET s     == Raw(args)
            d     == built.value
            pairs == IgnorePairs(s)
        IN  /\ s = <<>> => ~built.raised /\ d = EmptyDict
            /\ (s # <<>> /\ ~MalformedSpec(s)) =>
                  /\ ~built.raised
                  /\ DOMAIN d = {pr[1] : pr \in pairs}
                  /\ \A m \in (DOMAIN d) \cup ModuleNames :
                        \A n \in {pr[2] : pr \in pairs} \cup BlockNames :
                            n \in Range(DictGet(d, m, <<>>)) <=> <<m, n>> \in pairs

\* A spec with whitespace, two entries for module m and one for module n
\* has been parsed.
C10_Witness ==
    /\ BuildCalled
    /\ ~built.raised
    /\ " " \in Range(Raw(args))
    /\ DOMAIN built.value = {<<"m">>, <<"n">>}
    /\ Range(built.value[<<"m">>]) = {<<"f">>, <<"g">>}

\* C5: for every non-empty ignore spec with an entry that does not split
\* into exactly two colon-delimited parts, wherever it stands,
\* build_blocks_to_ignore raises; the error reaches the caller of
\* find_infractions (nothing is returned) and no event has been logged.
C5_MalformedRaises ==
    (BuildCalled /\ MalformedSpec(Raw(args))) =>
        /\ built.raised
        /\ pc = "raised"
        /\ exc = "ValueError"
        /\ returned = None
        /\ \A v \in Variants : frames[v].events = <<>>

\* The malformed entry is the last one, after a well-formed one, and the
\* result set holds a module that would have been reported.
C5_Witness ==
    /\ entry = "analyze"
    /\ pc = "raised"
    /\ Raw(args) = <<"m", ":", "f", ",">>
    /\ args.absolute # None
    /\ \E p \in 1..Len(results) : results[p].blocks.kind = "dict"
    /\ \E p \in 1..Len(results) : \E q \in 1..Len(results[p].blocks.items) :
          results[p].blocks.items[q].complexity = 45

\* C4 as claimed: in a run that ends with the malformed-ignore-entry error
\* the external analyzer has never been invoked.
C4_NoAnalysisBeforeFailure ==
    (pc = "raised" /\ exc = "ValueError") => harvested = 0

\* C4 amended: a run of analyze that ends with the malformed-ignore-entry
\* error has invoked the analyzer exactly once, and fails before any module
\* of the result set is visited, before any event is logged, and without
\* returning a count.
C4_FailsBeforeEvaluation ==
    (entry = "analyze" /\ pc = "raised" /\ exc = "ValueError") =>
        /\ harvested = 1
        /\ i = 0
        /\ \A v \in Variants : frames[v].events = <<>>
        /\ returned = None

\* analyze has harvested two modules and then failed on the ignore spec.
C4_Witness ==
    /\ entry = "analyze"
    /\ pc = "raised"
    /\ exc = "ValueError"
    /\ harvested = 1
    /\ Len(results) = 2

(* --------------------- the result set, read as a whole ----------------- *)

Given == frames["given"]

ModuleIdx(m) == CHOOSE p \in 1..Len(results) : results[p].module = m

\* The modules that are lists of blocks, and those that are error markers.
ListModules == {p \in 1..Len(results) : results[p].blocks.kind = "list"}

DictModules == {p \in 1..Len(results) : results[p].blocks.kind = "dict"}

SumScores(bs) ==
    LET F[n \in 0..Len(bs)] == IF n = 0 THEN 0 ELSE F[n - 1] + bs[n].complexity
    IN  F[Len(bs)]

TotalScore ==
    LET F[n \in 0..Len(results)] ==
            IF n = 0 THEN 0 ELSE F[n - 1] + SumScores(results[n].blocks.items)
    IN  F[Len(results)]

TotalBlocks == CountBlocks(results)

\* score / count as a rational, 0 for no blocks.
Mean(score, count) == IF count = 0 THEN <<0, 1>> ELSE <<score, count>>

ModuleMean(p) == Mean(SumScores(results[p].blocks.items), Len(results[p].blocks.items))

\* The place of a rank, and of a ceiling in either case, in A < B < ... < F.
RankLetters == <<"A", "B", "C", "D", "E", "F">>

SmallLetters == <<"a", "b", "c", "d", "e", "f">>

Level(c) == CHOOSE n \in 1..6 : RankLetters[n] = c \/ SmallLetters[n] = c

\* rank is strictly above the ceiling, which is set.
Exceeds(rank, ceiling) == ceiling # None /\ Level(rank) > Level(ceiling[1])

EventsOf(f, fmt) == {p \in 1..Len(f.events) : f.events[p].fmt = fmt}

ErrorEvents(f) == {p \in 1..Len(f.events) : f.events[p].level = "error"}

BlockEvent(m, b) ==
    Event("error", FmtBlock, m, b.lineno, b.name, "", CcRank(Num(b.complexity)), Num(0))

WarningEvent(p) ==
    Event("warning", FmtWarning, results[p].module, 0, <<>>, results[p].blocks.error, "", Num(0))

\* C3 as claimed: every module that is an error marker, whatever its error
\* string, is logged with exactly one warning and skipped: no other event
\* names it, it is not in module_averages, it adds nothing to the totals,
\* and evaluation goes on to return a count.
C3_ErrorModuleSkipped ==
    /\ exc # "TypeError"
    /\ \A p \in DictModules :
          (p < i \/ (p = i /\ pc \notin {"module_loop", "block_loop"})) =>
              /\ Cardinality({q \in 1..Len(Given.events) : Given.events[q] = WarningEvent(p)}) = 1
              /\ \A q \in 1..Len(Given.events) :
                    Given.events[q].module = results[p].module => Given.events[q] = WarningEvent(p)
              /\ \A q \in 1..Len(Given.module_averages) :
                    Given.module_averages[q][1] # results[p].module
    /\ pc = "done" => Given.total_blocks = TotalBlocks /\ Given.total_cc = TotalScore

\* The error-marker modules the loop has come to: all of them once the
\* loop is over, none when the ignore spec was refused before the loop.
ReachedDictModules == {p \in DictModules : p < i \/ (p = i /\ pc = "raised")}

\* C7 as claimed: when a run of find_infractions has ended, the number of
\* error events is the number of infractions counted (and returned), the
\* number of warning events is the number of error-marker modules the run
\* came to, and every event is an error of one of the four checks or the
\* warning of an error-marker module.
C7_OneEventEach ==
    pc \in {"done", "raised"} =>
        /\ pc = "done" => returned = Some(Given.infractions)
        /\ \A v \in Variants :
              LET f == frames[v]
              IN  /\ f.infractions = Cardinality(ErrorEvents(f))
                  /\ Len(f.events) - Cardinality(ErrorEvents(f)) = Cardinality(ReachedDictModules)
                  /\ \A q \in 1..Len(f.events) :
                        \/ /\ f.events[q].level = "error"
                           /\ f.events[q].fmt \in {FmtBlock, FmtAverageNum, FmtAverage, FmtModule}
                        \/ \E p \in ReachedDictModules : f.events[q] = WarningEvent(p)

\* The four checks of C1 under the arguments a, each counted from the
\* result set alone.
BlockInfractions(a) ==
    {pq \in ListModules \X (1..MaxTotalBlocks + 1) :
        /\ pq[2] <= Len(results[pq[1]].blocks.items)
        /\ Exceeds(CcRank(Num(results[pq[1]].blocks.items[pq[2]].complexity)), a.absolute)
        /\ <<results[pq[1]].module, results[pq[1]].blocks.items[pq[2]].name>>
              \notin IgnorePairs(Raw(a))}

AverageNumInfraction(a) ==
    IF a.averagenum # None /\ RatGt(Mean(TotalScore, TotalBlocks), <<a.averagenum[1], 1>>)
    THEN 1 ELSE 0

AverageInfraction(a) ==
    IF Exceeds(CcRank(Mean(TotalScore, TotalBlocks)), a.average) THEN 1 ELSE 0

ModuleInfractions(a) == {p \in ListModules : Exceeds(CcRank(ModuleMean(p)), a.modules)}

\* C1: the count returned is the sum of the four checks, each evaluated on
\* its own: blocks of non-error modules ranked strictly above the absolute
\* ceiling and not ignored for their module; 1 if the numeric ceiling is set
\* and the whole average is strictly above it; 1 if the rank of the whole
\* average is strictly above the total ceiling; the non-error modules whose
\* average (score total / block count) ranks strictly above the module
\* ceiling.
C1_CountIsSumOfChecks ==
    pc = "done" =>
        /\ returned = Some(Given.infractions)
        /\ \A v \in Variants :
              frames[v].infractions =
                  Cardinality(BlockInfractions(ArgsOf(v))) + AverageNumInfraction(ArgsOf(v))
                  + AverageInfraction(ArgsOf(v)) + Cardinality(ModuleInfractions(ArgsOf(v)))

\* All four checks count in one run, in which a block ranked above the
\* absolute ceiling is ignored and so not counted.
C1_Witness ==
    /\ pc = "done"
    /\ BlockInfractions(args) # {}
    /\ AverageNumInfraction(args) = 1
    /\ AverageInfraction(args) = 1
    /\ ModuleInfractions(args) # {}
    /\ \E p \in ListModules : \E q \in 1..Len(results[p].blocks.items) :
          /\ Exceeds(CcRank(Num(results[p].blocks.items[q].complexity)), args.absolute)
          /\ <<results[p].module, results[p].blocks.items[q].name>> \in IgnorePairs(Raw(args))

\* The events of f without those of one template.
RECURSIVE Without(_, _)
Without(es, fmt) ==
    IF es = <<>> THEN <<>>
    ELSE IF Head(es).fmt = fmt THEN Without(Tail(es), fmt)
    ELSE <<Head(es)>> \o Without(Tail(es), fmt)

\* The events without the block errors of the (module, name) pairs in prs.
RECURSIVE WithoutBlocks(_, _)
WithoutBlocks(es, prs) ==
    IF es = <<>> THEN <<>>
    ELSE IF Head(es).fmt = FmtBlock /\ <<Head(es).module, Head(es).name>> \in prs
         THEN WithoutBlocks(Tail(es), prs)
         ELSE <<Head(es)>> \o WithoutBlocks(Tail(es), prs)

\* C2: with an ignore map I instead of the empty one, the events are those
\* of the run without ignores less the block errors whose exact (module,
\* name) pair is in I, the count is lower by the number of events removed,
\* and the module averages, the totals, the whole average and its rank are
\* the same in both runs, at every step.
C2_IgnoreOnlyRemovesBlockErrors ==
    ~MalformedSpec(Raw(args)) =>
        LET f == Given
            g == frames["no_ignore"]
        IN  /\ f.events = WithoutBlocks(g.events, IgnorePairs(Raw(args)))
            /\ f.infractions = g.infractions - (Len(g.events) - Len(f.events))
            /\ f.module_averages = g.module_averages
            /\ f.total_cc = g.total_cc
            /\ f.total_blocks = g.total_blocks
            /\ f.av_cc = g.av_cc
            /\ f.ar = g.ar

\* Block f of module m is ignored and block f of module n is still
\* reported, and the module and total checks have fired.
C2_Witness ==
    /\ pc = "done"
    /\ Len(frames["no_ignore"].events) > Len(Given.events)
    /\ \E q \in EventsOf(Given, FmtBlock) :
          Given.events[q].module = <<"n">> /\ Given.events[q].name = <<"f">>
    /\ \E q \in EventsOf(frames["no_ignore"], FmtBlock) :
          /\ frames["no_ignore"].events[q].module = <<"m">>
          /\ frames["no_ignore"].events[q].name = <<"f">>
    /\ EventsOf(Given, FmtBlock) # {}
    /\ EventsOf(Given, FmtModule) # {}
    /\ EventsOf(Given, FmtAverage) # {}
    /\ EventsOf(Given, FmtAverageNum) # {}

\* The variant that unsets a ceiling, and the template of that ceiling's errors.
Axes ==
    { <<"no_absolute", FmtBlock>>, <<"no_modules", FmtModule>>,
      <<"no_average", FmtAverage>>, <<"no_averagenum", FmtAverageNum>> }

\* C6: check(rank, None) is false for every rank; with all four ceilings
\* unset a run returns 0 and logs no error; and unsetting one ceiling removes
\* exactly the errors of that axis, lowers the count by their number, and
\* leaves every other event as it was.
C6_UnsetCeilingNeverCounts ==
    /\ \A r \in Ranks : ~Check(r, None)
    /\ ( /\ pc = "done"
         /\ args.absolute = None /\ args.modules = None
         /\ args.average = None /\ args.averagenum = None )
       => returned = Some(0) /\ ErrorEvents(Given) = {}
    /\ \A ax \in Axes :
          /\ frames[ax[1]].events = Without(Given.events, ax[2])
          /\ frames[ax[1]].infractions = Given.infractions - Cardinality(EventsOf(Given, ax[2]))

\* Every axis has reported in the run as given, so that unsetting any one
\* ceiling removes something.
C6_Witness ==
    /\ pc = "done"
    /\ \A ax \in Axes :
          /\ EventsOf(Given, ax[2]) # {}
          /\ frames[ax[1]].infractions < Given.infractions
          /\ frames[ax[1]].infractions > 0

\* The phase of the run an event belongs to.
Phase(e) ==
    CASE e.fmt \in {FmtWarning, FmtBlock} -> 1
      [] e.fmt = FmtAverageNum -> 2
      [] e.fmt = FmtAverage -> 3
      [] e.fmt = FmtModule -> 4

RECURSIVE IsSubseq(_, _)
IsSubseq(a, b) ==
    IF a = <<>> THEN TRUE
    ELSE IF b = <<>> THEN FALSE
    ELSE IF Head(a) = Head(b) THEN IsSubseq(Tail(a), Tail(b))
    ELSE IsSubseq(a, Tail(b))

RECURSIVE OfModule(_, _)
OfModule(es, m) ==
    IF es = <<>> THEN <<>>
    ELSE IF Head(es).fmt = FmtBlock /\ Head(es).module = m
         THEN <<Head(es)>> \o OfModule(Tail(es), m)
         ELSE OfModule(Tail(es), m)

\* C8: the events come in a fixed order: module by module in the result
\* set's order the module's warning or its block errors, these in block-list
\* order; then the numeric total error, then the total rank error (at most
\* one of each); then the module rank errors in the order the modules were
\* visited.
C8_EventOrder ==
    \A v \in Variants :
        LET es == frames[v].events
        IN  /\ \A p, q \in 1..Len(es) :
                  p < q =>
                      /\ Phase(es[p]) <= Phase(es[q])
                      /\ Phase(es[p]) \in {2, 3} => Phase(es[p]) < Phase(es[q])
                      /\ Phase(es[p]) = 1 /\ Phase(es[q]) = 1 =>
                            ModuleIdx(es[p].module) <= ModuleIdx(es[q].module)
                      /\ Phase(es[p]) = 4 /\ Phase(es[q]) = 4 =>
                            ModuleIdx(es[p].module) < ModuleIdx(es[q].module)
            /\ \A p \in ListModules :
                  IsSubseq(OfModule(es, results[p].module),
                           [q \in 1..Len(results[p].blocks.items) |->
                                BlockEvent(results[p].module, results[p].blocks.items[q])])

\* Two different blocks of the first module, the warning of the second
\* module, both total errors and a module rank error have been logged.
C8_Witness ==
    /\ pc = "done"
    /\ Len(Given.events) = 6
    /\ Given.events[1].fmt = FmtBlock
    /\ Given.events[2].fmt = FmtBlock
    /\ Given.events[1].name # Given.events[2].name
    /\ Given.events[3].fmt = FmtWarning
    /\ Given.events[6].fmt = FmtModule

\* The non-error modules without blocks.
EmptyModules == {p \in ListModules : results[p].blocks.items = <<>>}

\* C9: av(n, 0) is 0; a non-error module without blocks has average 0 and
\* rank A and never gets a module rank error; a result set without blocks
\* has whole average 0 and rank A and never gets a total rank error; for
\* every rank ceiling.
C9_ZeroBlocksAverageZero ==
    /\ \A n \in {0, TotalScore} \cup Scores : Av(n, 0) = Num(0)
    /\ \A c \in Ranks : ~Check(CcRank(Av(0, 0)), Some(c))
    /\ \A v \in Variants :
          /\ \A q \in 1..Len(frames[v].module_averages) :
                LET pair == frames[v].module_averages[q]
                IN  ModuleIdx(pair[1]) \in EmptyModules =>
                        /\ pair[2] = Num(0)
                        /\ CcRank(pair[2]) = "A"
          /\ \A q \in EventsOf(frames[v], FmtModule) :
                ModuleIdx(frames[v].events[q].module) \notin EmptyModules
          /\ (pc \in {"check_averagenum", "check_average", "modules_loop", "done"}
                /\ TotalBlocks = 0) =>
                /\ frames[v].av_cc = Num(0)
                /\ frames[v].ar = "A"
                /\ EventsOf(frames[v], FmtAverage) = {}
    /\ \A p \in EmptyModules :
          (p < i /\ pc # "raised") =>
              \E q \in 1..Len(Given.module_averages) :
                  Given.module_averages[q] = <<results[p].module, Num(0)>>

\* A run under the lowest module and total ceilings has returned for a
\* result set of a module without blocks and a module that failed to parse.
C9_Witness ==
    /\ pc = "done"
    /\ args.modules = Some("A")
    /\ args.average = Some("a")
    /\ EmptyModules # {}
    /\ DictModules # {}
    /\ TotalBlocks = 0
    /\ returned = Some(0)

====
